---- MODULE Spec2Model ----
(***************************************************************************)
(* Model of the mycelium routing core:                                     *)
(*   src/src/routing_table.rs  RouteKey, RouteEntry, RoutingTable          *)
(*   src/src/router.rs         Router (peer list, send_hello)              *)
(* The RoutingTable is a BTreeMap<RouteKey, RouteEntry>; it is modelled as *)
(* the sequence of its (key, value) pairs in key order.  The Router owns   *)
(* only the list of directly connected peers; it holds no routing table.   *)
(***************************************************************************)
EXTENDS Integers, Sequences, FiniteSets

VARIABLES
    table,      \* RoutingTable.table: the pairs of the BTreeMap, in key order
    last,       \* the last RoutingTable call: its name, arguments and result
    peers,      \* Router.directly_connected_peers: the Vec<Peer>
    chan,       \* per peer, the packets sent on its to_peer_control channel
    delivered,  \* per peer, the packets the last Router call sent to it
    rlast,      \* the name of the last Router call
    owner,      \* the thread holding the Mutex of the peer list, 0 when free
    hello       \* per thread, where its send_hello call stands

vars == <<table, last, peers, chan, delivered, rlast, owner, hello>>

(***************************************************************************)
(* Bounds of the model.                                                    *)
(***************************************************************************)
\* most entries the table holds
MaxEntries == 2
\* most peers the Router's list holds
MaxPeers == 3
\* most packets one peer's channel holds
MaxChan == 3

\* width of an IP address in bits (IpAddr, scaled down)
AddrBits == 2

(***************************************************************************)
(* Value domains.                                                          *)
(***************************************************************************)
IpAddrs == 0 .. (2 ^ AddrBits - 1)

\* the metric that marks a retracted route (routing_table.rs:38)
INFINITE == 65535

\* a Peer is identified by its overlay ip (Peer::overlay_ip); the clones of
\* a Peer share its to_peer_control channel
Peers == {1, 2}
\* the router ids and the seqnos of the advertisements
RouterIds == {1, 2}
SeqNos == {0, 1}
Metrics == {1, INFINITE}

\* Subnet: a prefix of plen bits; addr has its host bits zero.
\* The lower half of the addresses and its upper quarter (inside the lower
\* half): with 2 bits 0/1 = {0,1} and 1/2 = {1}; no subnet holds 2 or 3.
Subnets ==
    { [addr |-> 0, plen |-> 1],
      [addr |-> 2 ^ (AddrBits - 2), plen |-> 2] }

\* Option<T>
None == [tag |-> "None"]
Some(v) == [tag |-> "Some", val |-> v]

(***************************************************************************)
(* Subnet (crate::subnet): ordering and containment.                       *)
(***************************************************************************)
\* Subnet::cmp: by prefix bits, then by prefix length
SubnetCmp(a, b) ==
    IF a.addr < b.addr THEN "Less"
    ELSE IF a.addr > b.addr THEN "Greater"
    ELSE IF a.plen < b.plen THEN "Less"
    ELSE IF a.plen > b.plen THEN "Greater"
    ELSE "Equal"

\* Subnet::contains_ip: the first plen bits of ip are the subnet's
contains_ip(s, ip) ==
    (ip \div (2 ^ (AddrBits - s.plen))) = (s.addr \div (2 ^ (AddrBits - s.plen)))

\* Peer::overlay_ip
overlay_ip(p) == p

\* Ord for IpAddr
IpCmp(a, b) ==
    IF a < b THEN "Less" ELSE IF a > b THEN "Greater" ELSE "Equal"

(***************************************************************************)
(* RouteKey, RouteEntry.                                                   *)
(***************************************************************************)
\* RouteKey::new
RouteKey(s, n) == [subnet |-> s, neighbor |-> n]

RouteKeys == { RouteKey(s, n) : s \in Subnets, n \in Peers }

\* impl PartialOrd for RouteKey: Subnet::partial_cmp, then the overlay ips
RouteKeyPartialCmp(a, b) ==
    LET ord == Some(SubnetCmp(a.subnet, b.subnet))
    IN  IF ord = Some("Equal")
        THEN Some(IpCmp(overlay_ip(a.neighbor), overlay_ip(b.neighbor)))
        ELSE ord

\* a faulty comparison that looks at the neighbour before the subnet
RouteKeyCmpNeighborFirst(a, b) ==
    LET ord == IpCmp(overlay_ip(a.neighbor), overlay_ip(b.neighbor))
    IN  IF ord = "Equal" THEN SubnetCmp(a.subnet, b.subnet) ELSE ord

\* impl Ord for RouteKey: by subnet, then by the neighbour's overlay ip
RouteKeyCmp(a, b) ==
    LET ord == SubnetCmp(a.subnet, b.subnet)
    IN  IF ord = "Equal"
        THEN IpCmp(overlay_ip(a.neighbor), overlay_ip(b.neighbor))
        ELSE ord

\* RouteEntry::new
RouteEntry(src, n, m, sq, sel) ==
    [source |-> src, neighbor |-> n, metric |-> m, seqno |-> sq, selected |-> sel]

\* SourceKey = (Subnet, RouterId)
SourceKey(s, r) == [subnet |-> s, router_id |-> r]

\* the entries a caller stores under key k: the advertisement of k.neighbor
\* for k.subnet
EntriesFor(k) ==
    { RouteEntry(SourceKey(k.subnet, r), k.neighbor, m, sq, sel) :
        r \in RouterIds, m \in Metrics, sq \in SeqNos, sel \in BOOLEAN }

\* RouteEntry::update_metric
update_metric(e, m) == [e EXCEPT !.metric = m]

\* RouteEntry::update_seqno
update_seqno(e, sq) == [e EXCEPT !.seqno = sq]

\* SourceKey::set_router_id
set_router_id(src, r) == [src EXCEPT !.router_id = r]

\* RouteEntry::update_router_id
update_router_id(e, r) == [e EXCEPT !.source = set_router_id(@, r)]

\* RouteEntry::set_selected
set_selected(e, sel) == [e EXCEPT !.selected = sel]

(***************************************************************************)
(* RoutingTable: the BTreeMap operations on the sequence of pairs.         *)
(***************************************************************************)
Pair(k, e) == [key |-> k, value |-> e]

\* the indices of t whose key compares Equal to k
Matches(t, k) == { i \in DOMAIN t : RouteKeyCmp(t[i].key, k) = "Equal" }

\* RoutingTable::contains_key
contains_key(t, k) == Matches(t, k) # {}

\* RoutingTable::get
get(t, k) ==
    IF Matches(t, k) = {} THEN None
    ELSE Some(t[CHOOSE i \in Matches(t, k) : \A j \in Matches(t, k) : i <= j].value)

Below(t, k) == SelectSeq(t, LAMBDA kv : RouteKeyCmp(kv.key, k) = "Less")
Above(t, k) == SelectSeq(t, LAMBDA kv : RouteKeyCmp(kv.key, k) = "Greater")

\* a faulty insert that keeps the entry already stored under the key
insert_keep_old(t, k, e) ==
    IF contains_key(t, k) THEN t
    ELSE Below(t, k) \o <<Pair(k, e)>> \o Above(t, k)

\* a faulty insert that takes the selected flag off the other entries of
\* the key's subnet
insert_deselecting(t, k, e) ==
    LET u == [ i \in DOMAIN t |->
                IF t[i].key.subnet = k.subnet
                THEN Pair(t[i].key, [t[i].value EXCEPT !.selected = FALSE])
                ELSE t[i] ]
    IN  Below(u, k) \o <<Pair(k, e)>> \o Above(u, k)

\* RoutingTable::insert: the entry takes the key's place in key order,
\* replacing the entry stored under an equal key
insert(t, k, e) == Below(t, k) \o <<Pair(k, e)>> \o Above(t, k)

\* a faulty remove that also drops the entries above the key
remove_through(t, k) == Below(t, k)

\* RoutingTable::remove: the table without the key
remove(t, k) == Below(t, k) \o Above(t, k)

\* a faulty lookup that scans the table from its end
lookup_from_end(t, ip) ==
    LET hits == { i \in DOMAIN t : contains_ip(t[i].key.subnet, ip) }
    IN  IF hits = {} THEN None
        ELSE Some(t[CHOOSE i \in hits : \A j \in hits : i >= j].value)

\* RoutingTable::lookup: a copy of the first entry, in key order, whose
\* subnet contains ip
lookup(t, ip) ==
    LET hits == { i \in DOMAIN t : contains_ip(t[i].key.subnet, ip) }
    IN  IF hits = {} THEN None
        ELSE Some(t[CHOOSE i \in hits : \A j \in hits : i <= j].value)

\* the predicates retain is called with: keep what is not neighbour n's
\* (session teardown), keep what is not retracted (expiry sweep)
RetainPreds ==
    { [kind |-> "not_neighbor", n |-> n] : n \in Peers }
      \cup { [kind |-> "not_retracted", n |-> 0] }

Keeps(f, k, e) ==
    IF f.kind = "not_neighbor" THEN e.neighbor # f.n
    ELSE e.metric # INFINITE

\* a faulty retain that keeps what the predicate rejects
retain_rejected(t, f) == SelectSeq(t, LAMBDA kv : ~Keeps(f, kv.key, kv.value))

\* RoutingTable::iter: the pairs in key order
iter(t) == t

\* RoutingTable::retain
retain(t, f) == SelectSeq(t, LAMBDA kv : Keeps(f, kv.key, kv.value))

\* get_mut(k) followed by a setter on the entry it returns
with_entry(t, k, e) ==
    [ i \in DOMAIN t |->
        IF RouteKeyCmp(t[i].key, k) = "Equal" THEN Pair(t[i].key, e) ELSE t[i] ]

(***************************************************************************)
(* The record of the last RoutingTable call.                               *)
(***************************************************************************)
NoKey == [subnet |-> [addr |-> 0, plen |-> 0], neighbor |-> 0]

Call(op, k, ip, arg, old, ret) ==
    [op |-> op, key |-> k, ip |-> ip, arg |-> arg, old |-> old, ret |-> ret]

RouterIdle == UNCHANGED <<peers, chan, delivered, rlast, owner, hello>>

\* RoutingTable::new
TableInit ==
    /\ table = <<>>
    /\ last = Call("new", NoKey, 0, None, None, None)

Get(k) ==
    /\ RouterIdle
    /\ last' = Call("get", k, 0, None, None, get(table, k))
    /\ UNCHANGED table

ContainsKey(k) ==
    /\ RouterIdle
    /\ last' = Call("contains_key", k, 0, None, None, Some(contains_key(table, k)))
    /\ UNCHANGED table

Insert(k, e) ==
    /\ RouterIdle
    /\ contains_key(table, k) \/ Len(table) < MaxEntries
    /\ table' = insert(table, k, e)
    /\ last' = Call("insert", k, 0, Some(e), get(table, k), None)

Remove(k) ==
    /\ RouterIdle
    /\ table' = remove(table, k)
    /\ last' = Call("remove", k, 0, None, get(table, k), get(table, k))

Retain(f) ==
    /\ RouterIdle
    /\ table' = retain(table, f)
    /\ last' = Call("retain", NoKey, 0, Some(f), None, None)

Lookup(ip) ==
    /\ RouterIdle
    /\ last' = Call("lookup", NoKey, ip, None, None, lookup(table, ip))
    /\ UNCHANGED table

Iter ==
    /\ RouterIdle
    /\ last' = Call("iter", NoKey, 0, None, None, Some(iter(table)))
    /\ UNCHANGED table

\* get_mut(k) and, when it returns an entry, one setter on it
Mutate(op, k, e, arg) ==
    /\ RouterIdle
    /\ contains_key(table, k)
    /\ table' = with_entry(table, k, e)
    /\ last' = Call(op, k, 0, Some(arg), None, None)

UpdateMetric(k, m) ==
    /\ contains_key(table, k)
    /\ Mutate("update_metric", k, update_metric(get(table, k).val, m), m)

UpdateSeqno(k, sq) ==
    /\ contains_key(table, k)
    /\ Mutate("update_seqno", k, update_seqno(get(table, k).val, sq), sq)

UpdateRouterId(k, r) ==
    /\ contains_key(table, k)
    /\ Mutate("update_router_id", k, update_router_id(get(table, k).val, r), r)

SetSelected(k, sel) ==
    /\ contains_key(table, k)
    /\ Mutate("set_selected", k, set_selected(get(table, k).val, sel), sel)

(***************************************************************************)
(* Router.                                                                 *)
(***************************************************************************)
\* the ControlPacket send_hello builds
hello_message == [message_type |-> "Hello", body_length |-> 0, body |-> None]

\* peer.to_peer_control.send(packet)
send(ch, p, packet) == [ch EXCEPT ![p] = Append(@, packet)]

\* the loop of send_hello: one send per element of the list
SendToAll(ps, ch, packet) ==
    LET F[i \in 0 .. Len(ps)] ==
            IF i = 0 THEN ch ELSE send(F[i - 1], ps[i], packet)
    IN  F[Len(ps)]

\* how many elements of the list are peer p
Registrations(ps, p) == Cardinality({ i \in DOMAIN ps : ps[i] = p })

TableIdle == UNCHANGED <<table, last>>

\* the threads that call send_hello on the shared Router
Threads == {1, 2}

\* a thread that has made no send_hello call: pc is where the call stands,
\* idx the position of the loop's iterator, atLock the list when the lock
\* was taken, sent the packets the call has sent to each peer
NoHello ==
    [pc |-> "idle", idx |-> 1, atLock |-> <<>>, sent |-> [p \in Peers |-> 0]]

\* a lock dropped after every iteration of the loop
GuardDroppedInLoop == FALSE

\* the MutexGuard of send_hello is a temporary of the for loop's iterator
\* expression: it is dropped when the loop ends
GuardHeldThroughLoop == TRUE

\* Router::new
RouterInit ==
    /\ peers = <<>>
    /\ chan = [p \in Peers |-> <<>>]
    /\ delivered = [p \in Peers |-> 0]
    /\ rlast = "new"
    /\ owner = 0
    /\ hello = [t \in Threads |-> NoHello]

\* Router::add_directly_connected_peer
AddDirectlyConnectedPeer(p) ==
    /\ Len(peers) < MaxPeers
    /\ peers' = Append(peers, p)
    /\ delivered' = [q \in Peers |-> 0]
    /\ rlast' = "add_directly_connected_peer"
    /\ UNCHANGED <<chan, owner, hello>>
    /\ TableIdle

\* Router::send_hello
SendHello ==
    /\ \A p \in Peers : Len(chan[p]) + Registrations(peers, p) <= MaxChan
    /\ chan' = SendToAll(peers, chan, hello_message)
    /\ delivered' = [p \in Peers |-> Len(chan'[p]) - Len(chan[p])]
    /\ rlast' = "send_hello"
    /\ UNCHANGED <<peers, owner, hello>>
    /\ TableIdle

\* the calls of the threads leave the table and the call history alone
CallsIdle == UNCHANGED <<table, last, delivered, rlast>>

\* add_directly_connected_peer of a thread: lock, push, unlock in one
\* statement; it waits while a send_hello holds the lock
LockedAdd(p) ==
    /\ owner = 0
    /\ Len(peers) < MaxPeers
    /\ peers' = Append(peers, p)
    /\ UNCHANGED <<chan, owner, hello>>
    /\ CallsIdle

\* send_hello of thread t: directly_connected_peers.lock().unwrap().iter()
HelloLock(t) ==
    /\ hello[t].pc # "loop"
    /\ owner = 0
    /\ \A p \in Peers : Len(chan[p]) + Registrations(peers, p) <= MaxChan
    /\ owner' = IF GuardHeldThroughLoop THEN t ELSE 0
    /\ hello' = [hello EXCEPT ![t] =
            [pc |-> "loop", idx |-> 1, atLock |-> peers,
             sent |-> [p \in Peers |-> 0]]]
    /\ UNCHANGED <<peers, chan>>
    /\ CallsIdle

\* send_hello of thread t: one iteration of the loop
HelloSend(t) ==
    /\ hello[t].pc = "loop"
    /\ owner = (IF GuardHeldThroughLoop THEN t ELSE 0)
    /\ hello[t].idx <= Len(peers)
    /\ LET p == peers[hello[t].idx] IN
        /\ chan' = send(chan, p, hello_message)
        /\ hello' = [hello EXCEPT ![t].idx = @ + 1, ![t].sent[p] = @ + 1]
    /\ UNCHANGED <<peers, owner>>
    /\ CallsIdle

\* send_hello of thread t: the iterator is exhausted, the guard is dropped
HelloUnlock(t) ==
    /\ hello[t].pc = "loop"
    /\ owner = (IF GuardHeldThroughLoop THEN t ELSE 0)
    /\ hello[t].idx > Len(peers)
    /\ owner' = 0
    /\ hello' = [hello EXCEPT ![t].pc = "done"]
    /\ UNCHANGED <<peers, chan>>
    /\ CallsIdle

(***************************************************************************)
(* Specifications.                                                         *)
(***************************************************************************)
Init == TableInit /\ RouterInit

\* the calls on the RoutingTable
Next ==
    \/ \E k \in RouteKeys : Get(k)
    \/ \E k \in RouteKeys : ContainsKey(k)
    \/ \E k \in RouteKeys : \E e \in EntriesFor(k) : Insert(k, e)
    \/ \E k \in RouteKeys : Remove(k)
    \/ \E f \in RetainPreds : Retain(f)
    \/ \E ip \in IpAddrs : Lookup(ip)
    \/ Iter
    \/ \E k \in RouteKeys : \E m \in Metrics : UpdateMetric(k, m)
    \/ \E k \in RouteKeys : \E sq \in SeqNos : UpdateSeqno(k, sq)
    \/ \E k \in RouteKeys : \E r \in RouterIds : UpdateRouterId(k, r)
    \/ \E k \in RouteKeys : \E sel \in BOOLEAN : SetSelected(k, sel)

Spec == Init /\ [][Next]_vars

\* the calls on the Router
RouterNext ==
    \/ \E p \in Peers : AddDirectlyConnectedPeer(p)
    \/ SendHello

RouterSpec == Init /\ [][RouterNext]_vars

\* threads calling add_directly_connected_peer and send_hello on the
\* shared peer list, one step of a call at a time
LockedNext ==
    \/ \E p \in Peers : LockedAdd(p)
    \/ \E t \in Threads : HelloLock(t)
    \/ \E t \in Threads : HelloSend(t)
    \/ \E t \in Threads : HelloUnlock(t)

LockedSpec == Init /\ [][LockedNext]_vars

(***************************************************************************)
(* Properties.                                                             *)
(***************************************************************************)
\* the entries of the table stored for subnet s that are selected
SelectedFor(s) ==
    { i \in DOMAIN table : table[i].key.subnet = s /\ table[i].value.selected }

\* C1: the table holds at most one entry per RouteKey, and after
\* insert(k, e) it holds exactly one entry for k, which get(k) returns:
\* the entry of the last insert.
Uniqueness ==
    /\ \A k \in RouteKeys : Cardinality(Matches(table, k)) <= 1
    /\ last.op = "insert" =>
        /\ Cardinality(Matches(table, last.key)) = 1
        /\ get(table, last.key) = last.arg

\* an insert has replaced a different entry stored under the same key
UniquenessWitness ==
    /\ last.op = "insert"
    /\ last.old.tag = "Some"
    /\ last.old # last.arg
    /\ Len(table) > 1

\* C2: for every subnet, at most one entry is selected, whatever sequence
\* of insert / remove / retain / set_selected calls was made.
SelectionExclusivity ==
    \A s \in Subnets : Cardinality(SelectedFor(s)) <= 1

\* C3: an entry that lookup returns is selected.
LookupOnlySelected ==
    (last.op = "lookup" /\ last.ret.tag = "Some") => last.ret.val.selected

\* the selected entries of the table whose subnet contains ip
SelectedMatches(ip) ==
    { i \in DOMAIN table :
        table[i].value.selected /\ contains_ip(table[i].key.subnet, ip) }

\* C4: when selected entries contain ip, lookup(ip) returns one of them
\* whose subnet has the longest prefix among them.
LookupLongestPrefix ==
    (last.op = "lookup" /\ SelectedMatches(last.ip) # {}) =>
        \E i \in SelectedMatches(last.ip) :
            /\ last.ret = Some(table[i].value)
            /\ \A j \in SelectedMatches(last.ip) :
                    table[j].key.subnet.plen <= table[i].key.subnet.plen

\* C9: send_hello sends exactly one packet, a Hello with body_length 0 and
\* no body, to every peer of the list and none to any other peer, and
\* leaves the list as it was.
HelloOncePerPeer ==
    rlast = "send_hello" =>
        \A p \in Peers :
            /\ delivered[p] = (IF Registrations(peers, p) > 0 THEN 1 ELSE 0)
            /\ \A i \in DOMAIN chan[p] : chan[p][i] = hello_message

\* C15: insert(key, entry) stores the entry as passed, selected flag
\* included, and leaves the entry under every other key as it was.
InsertFrame ==
    [][ last'.op = "insert" =>
            \A k \in RouteKeys :
                get(table', k) =
                    IF k = last'.key THEN last'.arg ELSE get(table, k) ]_vars

\* an insert has stored a selected entry beside a selected entry of the
\* same subnet, which it left selected
InsertFrameWitness ==
    /\ last.op = "insert"
    /\ last.arg.val.selected
    /\ \E i \in DOMAIN table :
        /\ table[i].key.subnet = last.key.subnet
        /\ table[i].key # last.key
        /\ table[i].value.selected

\* C16: remove(key) returns the entry stored under key and leaves no entry
\* under it, all other entries unchanged; when there is none it returns None
\* and the table is unchanged.
RemoveTotal ==
    [][ last'.op = "remove" =>
            /\ last'.ret = get(table, last'.key)
            /\ get(table', last'.key) = None
            /\ ~contains_key(table', last'.key)
            /\ \A k \in RouteKeys \ {last'.key} : get(table', k) = get(table, k)
            /\ (get(table, last'.key) = None => table' = table) ]_vars

\* a remove has returned the entry of its key and left another entry, which
\* sorts above the key, in the table
RemoveTotalWitness ==
    /\ last.op = "remove"
    /\ last.ret.tag = "Some"
    /\ \E i \in DOMAIN table : RouteKeyCmp(last.key, table[i].key) = "Less"

\* C17: retain(f) keeps exactly the entries f accepts; with f = "the
\* entry's neighbour is not n" no entry of n is left and every entry of
\* another neighbour is kept.
RetainExact ==
    [][ last'.op = "retain" =>
            /\ \A k \in RouteKeys :
                get(table', k) =
                    IF /\ get(table, k) # None
                       /\ Keeps(last'.arg.val, k, get(table, k).val)
                    THEN get(table, k) ELSE None
            /\ last'.arg.val.kind = "not_neighbor" =>
                /\ \A i \in DOMAIN table' :
                        table'[i].value.neighbor # last'.arg.val.n
                /\ \A i \in DOMAIN table :
                        table[i].value.neighbor # last'.arg.val.n =>
                            get(table', table[i].key) = Some(table[i].value) ]_vars

\* a retain for the teardown of neighbour n has left the table with an
\* entry, which is another neighbour's
RetainExactWitness ==
    /\ last.op = "retain"
    /\ last.arg.val.kind = "not_neighbor"
    /\ Len(table) = 1
    /\ table[1].value.neighbor # last.arg.val.n

\* RouteKey order: a is below b when its subnet is, or the subnets are the
\* same and its neighbour's overlay ip is smaller
KeyBelow(a, b) ==
    \/ SubnetCmp(a.subnet, b.subnet) = "Less"
    \/ /\ a.subnet = b.subnet
       /\ overlay_ip(a.neighbor) < overlay_ip(b.neighbor)

\* C18: RouteKey::cmp orders keys by subnet, then by the neighbour's overlay
\* ip; it is a total order, Equal exactly for the same subnet and overlay
\* ip, partial_cmp agrees with it, and the table iterates in this order.
KeyOrder ==
    /\ \A a, b \in RouteKeys :
        /\ RouteKeyCmp(a, b) = "Less" <=> KeyBelow(a, b)
        /\ RouteKeyCmp(a, b) = "Greater" <=> KeyBelow(b, a)
        /\ RouteKeyCmp(a, b) = "Equal" <=>
                (a.subnet = b.subnet
                    /\ overlay_ip(a.neighbor) = overlay_ip(b.neighbor))
        /\ RouteKeyPartialCmp(a, b) = Some(RouteKeyCmp(a, b))
        /\ \A c \in RouteKeys :
                (RouteKeyCmp(a, b) = "Less" /\ RouteKeyCmp(b, c) = "Less")
                    => RouteKeyCmp(a, c) = "Less"
    /\ \A i, j \in DOMAIN table : i < j => KeyBelow(table[i].key, table[j].key)
    /\ last.op = "iter" => last.ret = Some(table)

\* iter has returned two entries of different subnets, the first with the
\* larger overlay ip
KeyOrderWitness ==
    /\ last.op = "iter"
    /\ Len(last.ret.val) = 2
    /\ last.ret.val[1].key.subnet # last.ret.val[2].key.subnet
    /\ overlay_ip(last.ret.val[1].key.neighbor)
            > overlay_ip(last.ret.val[2].key.neighbor)

\* C19: lookup(ip) returns a copy of the first entry in RouteKey order
\* whose key's subnet contains ip, None exactly when no entry's subnet
\* contains ip, and leaves the table unchanged.
LookupFirstMatch ==
    [][ last'.op = "lookup" =>
            /\ table' = table
            /\ last'.ret = None <=>
                    (\A i \in DOMAIN table :
                        ~contains_ip(table[i].key.subnet, last'.ip))
            /\ last'.ret # None =>
                    \E i \in DOMAIN table :
                        /\ contains_ip(table[i].key.subnet, last'.ip)
                        /\ last'.ret = Some(table[i].value)
                        /\ \A j \in DOMAIN table :
                                contains_ip(table[j].key.subnet, last'.ip) =>
                                    ~KeyBelow(table[j].key, table[i].key) ]_vars

\* lookup has returned the first of two entries whose subnets contain ip
LookupFirstMatchWitness ==
    /\ last.op = "lookup"
    /\ Len(table) = 2
    /\ \A i \in DOMAIN table : contains_ip(table[i].key.subnet, last.ip)
    /\ table[1].value # table[2].value
    /\ last.ret = Some(table[1].value)

\* C20: a send_hello call holds the lock of the peer list from taking it
\* to the end of its loop: the list stays as it was when the lock was
\* taken, and the call sends one Hello for each element of that list, two
\* to a peer that is in it twice; the list only grows.
HelloUnderLock ==
    \A t \in Threads :
        /\ hello[t].pc = "loop" =>
            /\ owner = t
            /\ peers = hello[t].atLock
            /\ \A p \in Peers :
                    hello[t].sent[p] =
                        Registrations(SubSeq(peers, 1, hello[t].idx - 1), p)
        /\ hello[t].pc = "done" =>
            /\ \A p \in Peers :
                    hello[t].sent[p] = Registrations(hello[t].atLock, p)
            /\ Len(hello[t].atLock) <= Len(peers)
            /\ SubSeq(peers, 1, Len(hello[t].atLock)) = hello[t].atLock

\* a send_hello call has sent two Hellos to a peer that was in the list
\* twice, and a peer added to the list since got none from it
HelloUnderLockWitness ==
    \E t \in Threads :
        /\ hello[t].pc = "done"
        /\ \E p \in Peers : hello[t].sent[p] = 2
        /\ Len(peers) > Len(hello[t].atLock)
        /\ \E q \in Peers :
            /\ hello[t].sent[q] = 0
            /\ Registrations(peers, q) > 0

====
